---- MODULE Spec2Model ----
(***************************************************************************)
(* Model of the asynchronous tour pipeline of geo-story-tours:             *)
(* agents/orchestrator/main.py (create_tour_async, process_tour_async,     *)
(* get_tour_status) together with the Firestore writes of the agents'      *)
(* tools that the pipeline stages run.                                     *)
(*                                                                         *)
(* The Firestore collections 'jobs' and 'tours' are the variables jobs and *)
(* tours; a document is a function from field names to values, so that     *)
(* update() (a merge of the given fields) and set() (a replacement) differ *)
(* as they do in the store.  Timestamps are the token Now: the value of    *)
(* datetime.now() is not modelled, only which write sets which field.      *)
(***************************************************************************)
EXTENDS Integers, Sequences, FiniteSets, TLC

\* tool is the state of one run of an agent's tool or selection routine, for
\* the specifications that check those routines on their own; the pipeline
\* leaves it alone.
VARIABLES jobs, tours, args, pc, inflight, invoked, last, tool

vars == <<jobs, tours, args, pc, inflight, invoked, last, tool>>

\* ---------------------------------------------------------------- bounds
MaxJobs == 1

Jobs == 1..MaxJobs

\* ------------------------------------------------------------- documents
NoDoc == [exists |-> FALSE]

Now == "ts"

Exists(doc) == "exists" \notin DOMAIN doc

\* DocumentReference.update(fields): the given fields are merged into the
\* document, every other field is kept.
Update(doc, fields) ==
    [f \in DOMAIN doc \cup DOMAIN fields |->
        IF f \in DOMAIN fields THEN fields[f] ELSE doc[f]]

\* ------------------------------------------------------------ the stages
Stages == <<"curator", "optimizer", "storyteller", "moderator", "voice_synthesis">>

NumStages == Len(Stages)

\* The status and the progress process_tour_async writes before stage k.
StatusOfCopied(k) == Stages[IF k = 3 THEN 1 ELSE k] \o "_running"

StatusOf(k) == Stages[k] \o "_running"

ProgressOfLower(k) ==
    CASE k = 1 -> 25
      [] k = 2 -> 50
      [] k = 3 -> 75
      [] k = 4 -> 90
      [] k = 5 -> 85

ProgressOfStale(k) ==
    CASE k = 1 -> 25
      [] k = 2 -> 25
      [] k = 3 -> 75
      [] k = 4 -> 90
      [] k = 5 -> 95

ProgressOf(k) ==
    CASE k = 1 -> 25
      [] k = 2 -> 50
      [] k = 3 -> 75
      [] k = 4 -> 90
      [] k = 5 -> 95

\* What "await client.post(...); response.json()" can end in: a 200 answer
\* {"success": true, "response": ...}, the agent's own 500 answer
\* {"success": false, "error": ...} (the /invoke handlers' except branch), a
\* body .json() cannot parse, and the two transport failures of httpx.
Outcomes == {"ok", "rejected", "invalid", "timeout", "unavailable"}

\* The outcomes that raise inside process_tour_async's try block.  Nothing
\* reads "success" and no call to raise_for_status() is made, so the 500
\* answer of an agent raises nothing: .get("response", "") yields "".
RaisesNotOnTimeout(o) == o \in {"invalid", "unavailable"}

Raises(o) == o \in {"invalid", "timeout", "unavailable"}

\* A Firestore call either succeeds or raises.
StoreOutcomes == {"ok", "store_unavailable"}

\* ------------------------------------------------------------ the catalog
\* The 'locations' collection, in stream order.
Catalog == <<"a", "b">>

CatalogIds == {Catalog[i] : i \in 1..Len(Catalog)}

\* The location_ids a request may carry ("zz" names no location document).
LocationIdLists == {<<>>, <<"b", "zz">>}

Stop(id) == [id |-> id, name |-> id]

\* ------------------------------------------------------------- the task
\* tour_id = f"tour_{uuid.uuid4().hex[:8]}": one fresh identifier per task.
TourOf(j) == j

\* "if location_ids and len(location_ids) > 0"
UseExplicitInverted(ids) == Len(ids) = 0

UseExplicit(ids) == Len(ids) > 0

\* The locations_data built from the user's location_ids: the documents that
\* exist, in the order of the request.
RECURSIVE FetchLocations(_)
FetchLocations(ids) ==
    IF ids = <<>> THEN <<>>
    ELSE (IF Head(ids) \in CatalogIds THEN <<Stop(Head(ids))>> ELSE <<>>)
             \o FetchLocations(Tail(ids))

\* The locations_data of the fallback: the first n catalog locations (every
\* location of Catalog carries coordinates, and no centre is given).
RECURSIVE FallbackLocations(_, _)
FallbackLocations(cat, n) ==
    IF cat = <<>> \/ n = 0 THEN <<>>
    ELSE <<Stop(Head(cat))>> \o FallbackLocations(Tail(cat), n - 1)

NewTour(j, locs) ==
    [tour_id |-> TourOf(j), locations |-> locs, status |-> "created",
     created_at |-> Now]

\* The job record create_tour_async sets.
NewJob(j, ids) ==
    [job_id |-> j, status |-> "queued", progress |-> 0,
     location_ids |-> ids, created_at |-> Now]

\* The first update of process_tour_async, in either branch.
BeginUpdate(doc, explicit) ==
    Update(doc, [status |-> IF explicit THEN "fetching_locations" ELSE StatusOf(1),
                 progress |-> ProgressOf(1), updated_at |-> Now])

\* The update before stage k (2..5); the one before the optimizer also
\* stores tour_id.
StageUpdateForgotten(doc, k, j) ==
    IF k = 4
    THEN doc
    ELSE Update(doc, [status |-> StatusOf(k), progress |-> ProgressOf(k),
                      tour_id |-> TourOf(j), updated_at |-> Now])

StageUpdate(doc, k, j) ==
    IF k = 2
    THEN Update(doc, [status |-> StatusOf(k), progress |-> ProgressOf(k),
                      tour_id |-> TourOf(j), updated_at |-> Now])
    ELSE Update(doc, [status |-> StatusOf(k), progress |-> ProgressOf(k),
                      updated_at |-> Now])

\* The final update of the job.
FinalUpdateStale(doc, j, tour) ==
    Update(doc, [status |-> "completed", progress |-> ProgressOf(NumStages),
                 completed_at |-> Now])

FinalUpdate(doc, j, tour) ==
    Update(doc, [status |-> "completed", progress |-> 100, tour_id |-> TourOf(j),
                 tour |-> tour, completed_at |-> Now])

\* The update of the except branch.
FailUpdateDeletes(doc, detail) == NoDoc

FailUpdateNoDetail(doc, detail) ==
    Update(doc, [status |-> "failed", updated_at |-> Now])

FailUpdateSet(doc, detail) ==
    [status |-> "failed", error |-> detail, updated_at |-> Now]

FailUpdate(doc, detail) ==
    Update(doc, [status |-> "failed", error |-> detail, updated_at |-> Now])

\* tour_ref.update(...) after stage k (2..5) has answered.
TourStageUpdate(doc, k) ==
    CASE k = 2 -> Update(doc, [optimized |-> TRUE, updated_at |-> Now])
      [] k = 3 -> Update(doc, [stories_generated |-> TRUE, updated_at |-> Now])
      [] k = 4 -> Update(doc, [status |-> "approved", moderated |-> TRUE,
                               updated_at |-> Now])
      [] k = 5 -> Update(doc, [status |-> "completed",
                               voice_synthesis_completed |-> TRUE,
                               completed_at |-> Now])

\* dict.get(field, default) of a document's data.
Get(doc, field, default) == IF field \in DOMAIN doc THEN doc[field] ELSE default

\* GET /tour-status/{job_id} on the job document doc, st the outcome of the
\* read of the store: the answer's status code and the fields read from the
\* record ("None" for a field the record does not have).
GetTourStatus(doc, st) ==
    IF st # "ok" THEN [code |-> 500, detail |-> st]
    ELSE IF ~Exists(doc) THEN [code |-> 404, detail |-> "Job not found"]
    ELSE [code |-> 200,
          status |-> Get(doc, "status", "None"),
          progress |-> Get(doc, "progress", 0),
          tour_id |-> Get(doc, "tour_id", "None"),
          error |-> Get(doc, "error", "None")]

\* Where the task stands after "client.post(...)" of stage k: the call is
\* awaited.
PhaseAfterPostLost(k) == "lost"

PhaseAfterPostNoAwait(k) == IF k = 1 THEN "get_tour" ELSE "tour_update"

PhaseAfterPost(k) == "await"

\* ------------------------------------------------- the agents' tool writes
\* The fields a tool writes for its own bookkeeping and no code reads
\* (route_optimized_at, storyteller_completed_at, moderation_completed_at,
\* moderation_results, approved_at, audio_generated_at,
\* audio_synthesis_completed_at) are left out of the documents.
\* create_tour_record_tool (curator): set() of the tour record; the agent's
\* selection is the whole catalog here.
CreateTourRecord(j) ==
    [status |-> "route_planning", created_at |-> Now, tour_id |-> TourOf(j),
     locations |-> FallbackLocations(Catalog, Len(Catalog))]

\* update_tour_record_tool (optimizer).
UpdateTourRecord(doc) ==
    Update(doc, [status |-> "route_optimized"])

\* generate_and_save_stories_tool (storyteller): every location gets a story.
SaveStories(doc) ==
    Update(doc, [locations |-> [i \in 1..Len(doc.locations) |->
                                   Update(doc.locations[i], [story |-> "text"])],
                 stories_generated |-> TRUE])

\* update_tour_status_tool (moderator), status "approved" or "requires_review".
UpdateTourStatus(doc, status) ==
    Update(doc, [status |-> status])

\* update_tour_with_audio_tool (voice synthesis), for one location.
UpdateTourWithAudio(doc, id) ==
    Update(doc, [locations |-> [i \in 1..Len(doc.locations) |->
                                   IF doc.locations[i].id = id
                                   THEN Update(doc.locations[i], [audio_url |-> "url"])
                                   ELSE doc.locations[i]]])

\* get_pending_synthesis_jobs_tool: the locations of an approved tour that
\* have a story and no audio.
PendingSynthesis(doc) ==
    IF doc.status # "approved" THEN {}
    ELSE {doc.locations[i].id : i \in {n \in 1..Len(doc.locations) :
              /\ "story" \in DOMAIN doc.locations[n]
              /\ "audio_url" \notin DOMAIN doc.locations[n]}}

\* The tour documents one run of stage k's agent can leave behind for tour
\* t (the agent is a language model: which tool it calls is its choice).
StageEffects(k, j, doc) ==
    CASE k = 1 -> {CreateTourRecord(j)}
      [] k = 2 -> IF Exists(doc) THEN {UpdateTourRecord(doc)} ELSE {}
      [] k = 3 -> IF Exists(doc) /\ doc.locations # <<>> THEN {SaveStories(doc)} ELSE {}
      [] k = 4 -> IF Exists(doc)
                  THEN {UpdateTourStatus(doc, s) : s \in {"approved", "requires_review"}}
                  ELSE {}
      [] k = 5 -> IF Exists(doc)
                  THEN {UpdateTourWithAudio(doc, id) : id \in PendingSynthesis(doc)}
                  ELSE {}

\* The tour records the agent of stage k, invoked for job j, may write: the
\* voice agent takes its work from get_pending_synthesis_jobs_tool, which
\* lists the approved tours of the whole collection; every other agent is
\* given the tour id in its prompt.
AgentTargets(k, j) == IF k = 5 THEN DOMAIN tours ELSE {TourOf(j)}

\* -------------------------------------------------------------- the state
Init ==
    /\ jobs = [j \in Jobs |-> NoDoc]
    /\ tours = [j \in Jobs |-> NoDoc]
    /\ args = [j \in Jobs |-> <<>>]
    /\ pc = [j \in Jobs |-> [at |-> "none", k |-> 0]]
    /\ inflight = [j \in Jobs |-> {}]
    /\ invoked = [j \in Jobs |-> <<>>]
    /\ last = [j \in Jobs |-> "none"]
    /\ tool = "none"

\* An exception inside the try block of process_tour_async: the except
\* branch updates the job; that update can raise too, and then the exception
\* leaves the task.
Except(j, detail) ==
    \E st \in StoreOutcomes :
        /\ jobs' = IF st = "ok" THEN [jobs EXCEPT ![j] = FailUpdate(@, detail)] ELSE jobs
        /\ pc' = [pc EXCEPT ![j].at = IF st = "ok" THEN "done" ELSE "crashed"]

\* POST /create-tour-async: the job record is set and the task is added.
CreateTourAsync(j, ids) ==
    /\ ~Exists(jobs[j])
    /\ \A i \in DOMAIN jobs : i < j => Exists(jobs[i])
    /\ jobs' = [jobs EXCEPT ![j] = NewJob(j, ids)]
    /\ args' = [args EXCEPT ![j] = ids]
    /\ pc' = [pc EXCEPT ![j] = [at |-> "queued", k |-> 0]]
    /\ UNCHANGED <<tours, inflight, invoked, last, tool>>

\* process_tour_async up to its first update of the job.
Begin(j) ==
    /\ pc[j].at = "queued"
    /\ \E st \in StoreOutcomes :
         IF st = "ok"
         THEN /\ jobs' = [jobs EXCEPT ![j] = BeginUpdate(@, UseExplicit(args[j]))]
              /\ pc' = [pc EXCEPT ![j] = IF UseExplicit(args[j])
                                         THEN [at |-> "fetch", k |-> 1]
                                         ELSE [at |-> "post", k |-> 1]]
         ELSE Except(j, st)
    /\ UNCHANGED <<tours, args, inflight, invoked, last, tool>>

\* The branch of the user's own locations: the tour record is set.
Fetch(j) ==
    /\ pc[j].at = "fetch"
    /\ \E st \in StoreOutcomes :
         IF st = "ok"
         THEN /\ tours' = [tours EXCEPT ![TourOf(j)] = NewTour(j, FetchLocations(args[j]))]
              /\ pc' = [pc EXCEPT ![j] = [at |-> "job_update", k |-> 2]]
              /\ UNCHANGED jobs
         ELSE Except(j, st) /\ UNCHANGED tours
    /\ UNCHANGED <<args, inflight, invoked, last, tool>>

\* client.post(f"{..._URL}/invoke", ...) of stage pc[j].k is sent.
Post(j) ==
    /\ pc[j].at = "post"
    /\ inflight' = [inflight EXCEPT ![j] = @ \cup {pc[j].k}]
    /\ invoked' = [invoked EXCEPT ![j] = Append(@, pc[j].k)]
    /\ pc' = [pc EXCEPT ![j].at = PhaseAfterPost(pc[j].k)]
    /\ UNCHANGED <<jobs, tours, args, last, tool>>

\* The agent of the stage in flight runs one of its tools.
AgentWork(j) ==
    /\ inflight[j] # {}
    /\ \E k \in inflight[j] : \E t \in AgentTargets(k, j) :
         \E doc \in StageEffects(k, j, tours[t]) :
            /\ doc # tours[t]
            /\ tours' = [tours EXCEPT ![t] = doc]
    /\ UNCHANGED <<jobs, args, pc, inflight, invoked, last, tool>>

\* The awaited call of stage pc[j].k ends.
Return(j) ==
    /\ pc[j].at = "await"
    /\ \E o \in Outcomes :
         /\ last' = [last EXCEPT ![j] = o]
         /\ IF Raises(o)
            THEN Except(j, o)
            ELSE /\ pc' = [pc EXCEPT ![j].at = IF pc[j].k = 1 THEN "get_tour"
                                                ELSE "tour_update"]
                 /\ UNCHANGED jobs
    /\ inflight' = [inflight EXCEPT ![j] = @ \ {pc[j].k}]
    /\ UNCHANGED <<tours, args, invoked, tool>>

\* After the curator: the tour is read, and set by the task when the curator
\* has not created it.
GetTour(j) ==
    /\ pc[j].at = "get_tour"
    /\ IF Exists(tours[TourOf(j)])
       THEN /\ pc' = [pc EXCEPT ![j] = [at |-> "job_update", k |-> 2]]
            /\ UNCHANGED <<jobs, tours>>
       ELSE \E st \in StoreOutcomes :
              IF st = "ok"
              THEN /\ tours' = [tours EXCEPT ![TourOf(j)] =
                                   NewTour(j, FallbackLocations(Catalog, 6))]
                   /\ pc' = [pc EXCEPT ![j] = [at |-> "job_update", k |-> 2]]
                   /\ UNCHANGED jobs
              ELSE Except(j, st) /\ UNCHANGED tours
    /\ UNCHANGED <<args, inflight, invoked, last, tool>>

\* job_ref.update before stage pc[j].k (optimizer .. voice synthesis).
JobUpdate(j) ==
    /\ pc[j].at = "job_update"
    /\ \E st \in StoreOutcomes :
         IF st = "ok"
         THEN /\ jobs' = [jobs EXCEPT ![j] = StageUpdate(@, pc[j].k, j)]
              /\ pc' = [pc EXCEPT ![j].at = "post"]
         ELSE Except(j, st)
    /\ UNCHANGED <<tours, args, inflight, invoked, last, tool>>

\* tour_ref.update after stage pc[j].k (optimizer .. voice synthesis).
TourUpdate(j) ==
    /\ pc[j].at = "tour_update"
    /\ \E st \in StoreOutcomes :
         IF st = "ok"
         THEN /\ tours' = [tours EXCEPT ![TourOf(j)] = TourStageUpdate(@, pc[j].k)]
              /\ pc' = [pc EXCEPT ![j] = IF pc[j].k < NumStages
                                         THEN [at |-> "job_update", k |-> pc[j].k + 1]
                                         ELSE [at |-> "final", k |-> pc[j].k]]
              /\ UNCHANGED jobs
         ELSE Except(j, st) /\ UNCHANGED tours
    /\ UNCHANGED <<args, inflight, invoked, last, tool>>

\* The final update: the job is completed and carries the tour.
Final(j) ==
    /\ pc[j].at = "final"
    /\ \E st \in StoreOutcomes :
         IF st = "ok"
         THEN /\ jobs' = [jobs EXCEPT ![j] = FinalUpdate(@, j, tours[TourOf(j)])]
              /\ pc' = [pc EXCEPT ![j].at = "done"]
         ELSE Except(j, st)
    /\ UNCHANGED <<tours, args, inflight, invoked, last, tool>>

\* A job is marked for cancellation from outside, between two stages (the
\* mark is a field of the job record; no code of the orchestrator writes or
\* reads it).
Cancel(j) ==
    /\ Exists(jobs[j])
    /\ jobs[j].status \notin {"completed", "failed"}
    /\ invoked[j] # <<>> /\ inflight[j] = {}
    /\ "cancel_requested" \notin DOMAIN jobs[j]
    /\ jobs' = [jobs EXCEPT ![j] = Update(@, [cancel_requested |-> TRUE])]
    /\ UNCHANGED <<tours, args, pc, inflight, invoked, last, tool>>

Next ==
    \/ \E j \in DOMAIN jobs : \E ids \in LocationIdLists : CreateTourAsync(j, ids)
    \/ \E j \in DOMAIN jobs : Begin(j)
    \/ \E j \in DOMAIN jobs : Fetch(j)
    \/ \E j \in DOMAIN jobs : Post(j)
    \/ \E j \in DOMAIN jobs : AgentWork(j)
    \/ \E j \in DOMAIN jobs : Return(j)
    \/ \E j \in DOMAIN jobs : GetTour(j)
    \/ \E j \in DOMAIN jobs : JobUpdate(j)
    \/ \E j \in DOMAIN jobs : TourUpdate(j)
    \/ \E j \in DOMAIN jobs : Final(j)
    \/ \E j \in DOMAIN jobs : Cancel(j)

Spec == Init /\ [][Next]_vars

\* The steps of the background task of job j, the return of an awaited call
\* among them.
Task(j) ==
    \/ Begin(j) \/ Fetch(j) \/ Post(j) \/ Return(j) \/ GetTour(j)
    \/ JobUpdate(j) \/ TourUpdate(j) \/ Final(j)

\* The event loop runs every task that can take a step, and every awaited
\* call ends, by an answer or by the timeout of its client.
SpecLive == Spec /\ \A j \in Jobs : WF_vars(Task(j))

\* ------------------------------------------------- jobs running side by side
\* One job more than Jobs, so that two tasks run at the same time.
InitPair ==
    /\ jobs = [j \in 1..(MaxJobs + 1) |-> NoDoc]
    /\ tours = [j \in 1..(MaxJobs + 1) |-> NoDoc]
    /\ args = [j \in 1..(MaxJobs + 1) |-> <<>>]
    /\ pc = [j \in 1..(MaxJobs + 1) |-> [at |-> "none", k |-> 0]]
    /\ inflight = [j \in 1..(MaxJobs + 1) |-> {}]
    /\ invoked = [j \in 1..(MaxJobs + 1) |-> <<>>]
    /\ last = [j \in 1..(MaxJobs + 1) |-> "none"]
    /\ tool = "none"

SpecPair == InitPair /\ [][Next]_vars

\* ---------------------------------------- the tools that merge into a tour
\* One tour record and the tools generate_and_save_stories_tool and
\* update_tour_with_audio_tool run on it one after the other. Here tool is
\* [clock, last]: the time of the last run (datetime.now() of a run is
\* clock + 1) and the arguments of the last run.
MaxStops == 2

MaxCalls == 3

SeqsUpTo(S, n) == UNION {[1..m -> S] : m \in 0..n}

\* Stops as earlier stages leave them: two share an id, two share a name, one
\* carries a description and route_info, one a story and audio already.
MergeStops ==
    {[id |-> "a", name |-> "a"],
     [id |-> "b", name |-> "b", description |-> "d", route_info |-> "r"],
     [id |-> "a", name |-> "b", story |-> "old", audio_url |-> "u0"]}

\* The tour record the tools find: none, one without locations, or one with
\* up to MaxStops stops.
MergeTours ==
    {NoDoc, [tour_id |-> 1, status |-> "created"]}
        \cup {[tour_id |-> 1, status |-> "approved", locations |-> locs] :
                 locs \in SeqsUpTo(MergeStops, MaxStops)}

\* The parsed stories_json of a call: no story, one story, and two stories
\* for one name of which the first is empty.
StoriesInputs ==
    {<<>>,
     <<[location_name |-> "a", story |-> "s1"]>>,
     <<[location_name |-> "b", story |-> ""], [location_name |-> "b", story |-> "s2"]>>}

AudioIds == {"a", "zz"}

AudioUrls == {"u1", "u2"}

\* The story of the first item whose location_name is name ("None" when
\* there is none): the inner loop with its break.
RECURSIVE FirstStory(_, _)
FirstStory(stories, name) ==
    IF stories = <<>> THEN "None"
    ELSE IF Head(stories).location_name = name THEN Head(stories).story
    ELSE FirstStory(Tail(stories), name)

\* The story a location gets: the matching one, or the basic story built
\* from its description when there is no match or the match is empty.
StoryFor(loc, stories) ==
    IF FirstStory(stories, Get(loc, "name", "")) \in {"None", ""}
    THEN Get(loc, "description", "") \o " This remarkable location"
    ELSE FirstStory(stories, Get(loc, "name", ""))

\* generate_and_save_stories_tool run at time now: the record it leaves.
GenerateAndSaveStoriesAppends(doc, stories, now) ==
    IF ~Exists(doc) \/ Get(doc, "locations", <<>>) = <<>> THEN doc
    ELSE Update(doc, [locations |-> doc.locations \o
                         [i \in 1..Len(doc.locations) |->
                             Update(doc.locations[i],
                                    [story |-> StoryFor(doc.locations[i], stories)])],
                      stories_generated |-> TRUE,
                      storyteller_completed_at |-> now])

GenerateAndSaveStories(doc, stories, now) ==
    IF ~Exists(doc) \/ Get(doc, "locations", <<>>) = <<>> THEN doc
    ELSE Update(doc, [locations |->
                         [i \in 1..Len(doc.locations) |->
                             Update(doc.locations[i],
                                    [story |-> StoryFor(doc.locations[i], stories)])],
                      stories_generated |-> TRUE,
                      storyteller_completed_at |-> now])

\* update_tour_with_audio_tool run at time now: the record it leaves.
UpdateTourWithAudioAt(doc, id, url, now) ==
    IF ~Exists(doc) \/ "locations" \notin DOMAIN doc THEN doc
    ELSE Update(doc, [locations |->
                         [i \in 1..Len(doc.locations) |->
                             IF Get(doc.locations[i], "id", "None") = id
                             THEN Update(doc.locations[i],
                                         [audio_url |-> url, audio_generated_at |-> now])
                             ELSE doc.locations[i]],
                      audio_synthesis_completed_at |-> now])

InitMerge ==
    /\ \E doc \in MergeTours : tours = [t \in 1..1 |-> doc]
    /\ tool = [clock |-> 0, last |-> [op |-> "none", stories |-> <<>>, id |-> "", url |-> ""]]
    /\ jobs = [j \in 1..1 |-> NoDoc]
    /\ args = [j \in 1..1 |-> <<>>]
    /\ pc = [j \in 1..1 |-> [at |-> "none", k |-> 0]]
    /\ inflight = [j \in 1..1 |-> {}]
    /\ invoked = [j \in 1..1 |-> <<>>]
    /\ last = [j \in 1..1 |-> "none"]

\* One run of generate_and_save_stories_tool on the tour.
GenerateAndSaveStoriesTool(stories) ==
    /\ tool.clock < MaxCalls
    /\ tours' = [tours EXCEPT ![1] = GenerateAndSaveStories(@, stories, tool.clock + 1)]
    /\ tool' = [clock |-> tool.clock + 1,
                last |-> [op |-> "stories", stories |-> stories, id |-> "", url |-> ""]]
    /\ UNCHANGED <<jobs, args, pc, inflight, invoked, last>>

\* One run of update_tour_with_audio_tool on the tour.
UpdateTourWithAudioTool(id, url) ==
    /\ tool.clock < MaxCalls
    /\ tours' = [tours EXCEPT ![1] = UpdateTourWithAudioAt(@, id, url, tool.clock + 1)]
    /\ tool' = [clock |-> tool.clock + 1,
                last |-> [op |-> "audio", stories |-> <<>>, id |-> id, url |-> url]]
    /\ UNCHANGED <<jobs, args, pc, inflight, invoked, last>>

NextMerge ==
    \/ \E stories \in StoriesInputs : GenerateAndSaveStoriesTool(stories)
    \/ \E id \in AudioIds : \E url \in AudioUrls : UpdateTourWithAudioTool(id, url)

SpecMerge == InitMerge /\ [][NextMerge]_vars

\* --------------------------------------------------------- the route builder
\* calculate_route_tool and RouteOptimizerAgent.optimize_route run the same
\* loop. Here tool is [at, objs, start, remaining, route, current_pos]: objs
\* are the dicts of the input list, one object per position; remaining and
\* route hold positions of the input list, since both lists hold the objects
\* themselves; at is "loop", "done" or "error".
MaxRouteStops == 3

\* Points lie on the equator at whole degrees of longitude.
Longitudes == {-1, 0, 1}

Point(lng) == [lat |-> 0, lng |-> lng]

\* The haversine distance of two points of the equator is the difference of
\* their longitudes times 6371000 * pi / 180 metres; distances are counted in
\* that unit.
Distance(point1, point2) ==
    IF point1.lng >= point2.lng THEN point1.lng - point2.lng
    ELSE point2.lng - point1.lng

\* The stops of an input list: with coordinates, and one that has none.
\* A stop's name is not its identifier.
NameOf(id) == "The " \o id

RouteStops ==
    {[id |-> id, name |-> NameOf(id), coordinates |-> Point(lng)] :
        id \in {"a", "b"}, lng \in Longitudes}
        \cup {[id |-> "c", name |-> NameOf("c")]}

StartPoints == {Point(0), Point(1)}

HasCoordinates(loc) == "coordinates" \in DOMAIN loc

\* min() keeps the first element of the smallest key: a later element takes
\* the place of the best one only when its key is smaller.
CloserOrFarther(d, best) == d > best

CloserOrEqual(d, best) == d <= best

Closer(d, best) == d < best

\* The place in remaining of min(remaining, key = distance from pos), from
\* place p on, best being the place of the smallest key so far.
RECURSIVE MinPlace(_, _, _, _, _)
MinPlace(objs, remaining, pos, p, best) ==
    IF p > Len(remaining) THEN best
    ELSE MinPlace(objs, remaining, pos, p + 1,
                  IF Closer(Distance(pos, objs[remaining[p]].coordinates),
                            Distance(pos, objs[remaining[best]].coordinates))
                  THEN p ELSE best)

Nearest(objs, remaining, pos) == remaining[MinPlace(objs, remaining, pos, 2, 1)]

\* remaining.remove(nearest): the first element that is the object itself
\* or a dict equal to it goes.
RemoveNothing(objs, remaining, n) == remaining

RemoveHead(objs, remaining, n) == Tail(remaining)

RECURSIVE Remove(_, _, _)
Remove(objs, remaining, n) ==
    IF remaining = <<>> THEN <<>>
    ELSE IF Head(remaining) = n \/ objs[Head(remaining)] = objs[n]
         THEN Tail(remaining)
         ELSE <<Head(remaining)>> \o Remove(objs, Tail(remaining), n)

\* nearest['route_info'] of the stop emitted from pos after the stops of
\* route.
RouteInfo(objs, route, pos, n) ==
    [distance_meters |-> Distance(pos, objs[n].coordinates),
     from_previous |-> IF route = <<>> THEN "start" ELSE objs[route[Len(route)]].name]

InitRoute ==
    /\ \E locations \in SeqsUpTo(RouteStops, MaxRouteStops) : \E start \in StartPoints :
          tool = [at |-> "loop", objs |-> locations, start |-> start,
                  remaining |-> [i \in 1..Len(locations) |-> i],
                  route |-> <<>>, current_pos |-> start]
    /\ jobs = [j \in 1..1 |-> NoDoc]
    /\ tours = [j \in 1..1 |-> NoDoc]
    /\ args = [j \in 1..1 |-> <<>>]
    /\ pc = [j \in 1..1 |-> [at |-> "none", k |-> 0]]
    /\ inflight = [j \in 1..1 |-> {}]
    /\ invoked = [j \in 1..1 |-> <<>>]
    /\ last = [j \in 1..1 |-> "none"]

\* One turn of "while remaining": the key of min() is computed for every
\* remaining stop, so a stop without coordinates raises and no route is
\* returned.
RouteStep ==
    /\ tool.at = "loop"
    /\ tool.remaining # <<>>
    /\ IF \E p \in 1..Len(tool.remaining) : ~HasCoordinates(tool.objs[tool.remaining[p]])
       THEN tool' = [tool EXCEPT !.at = "error"]
       ELSE LET n == Nearest(tool.objs, tool.remaining, tool.current_pos)
                objs == [tool.objs EXCEPT ![n] =
                            Update(@, [route_info |->
                                RouteInfo(tool.objs, tool.route, tool.current_pos, n)])]
            IN tool' = [tool EXCEPT !.objs = objs,
                                    !.route = Append(@, n),
                                    !.remaining = Remove(objs, @, n),
                                    !.current_pos = objs[n].coordinates]
    /\ UNCHANGED <<jobs, tours, args, pc, inflight, invoked, last>>

\* The loop ends and the route is returned.
RouteReturn ==
    /\ tool.at = "loop"
    /\ tool.remaining = <<>>
    /\ tool' = [tool EXCEPT !.at = "done"]
    /\ UNCHANGED <<jobs, tours, args, pc, inflight, invoked, last>>

NextRoute == RouteStep \/ RouteReturn

SpecRoute == InitRoute /\ [][NextRoute]_vars

\* The tool is a plain function call: once called it runs on.
SpecRouteFair == SpecRoute /\ WF_vars(NextRoute)

\* sum(...) over the stops of the route, from place p on.
RECURSIVE SumOver(_, _)
SumOver(f, p) == IF p > Len(f) THEN 0 ELSE f[p] + SumOver(f, p + 1)

\* The answer of calculate_route_tool once the loop has ended: the route
\* and duration_info. Walking is counted in the unit of Distance (the
\* minutes are that number times 6371000 * pi / 180 / 80); a stop without
\* average_visit_minutes counts 5 minutes.
RouteResult(objs, route) ==
    [optimized_locations |-> [p \in 1..Len(route) |-> objs[route[p]]],
     duration_info |->
        [walking |-> SumOver([p \in 1..Len(route) |->
                                 objs[route[p]].route_info.distance_meters], 1),
         story_minutes |-> SumOver([p \in 1..Len(route) |->
                                 Get(objs[route[p]], "average_visit_minutes", 5)], 1)]]

\* ------------------------------------------------------ the location selector
\* query_locations_tool is called several times with the same arguments on
\* the same catalog. Here tool is [catalog, interests, center, radius,
\* max_locations, results], results being the answers of the calls so far.
MaxCatalog == 3

MaxQueries == 2

\* 6371 km * pi / 180: the haversine distance of two points of the equator
\* one degree of longitude apart, in whole kilometres.
KmPerDegree == 111

HaversineKm(lat1, lon1, lat2, lon2) ==
    KmPerDegree * Distance([lat |-> lat1, lng |-> lon1], [lat |-> lat2, lng |-> lon2])

\* The documents of the locations collection: with one or two categories,
\* with coordinates, with a longitude only, or with no coordinates at all.
SelectorLocations ==
    {[categories |-> cats, coordinates |-> Point(lng)] :
        cats \in {<<"history">>, <<"art", "history">>, <<"food">>}, lng \in {0, 1}}
        \cup {[categories |-> <<"history">>, coordinates |-> [lng |-> 0]],
              [categories |-> <<"art">>]}

InterestInputs == {<<"history">>, <<"art", "music">>}

\* center_lat and center_lng: a field that is missing stands for None.
CenterInputs ==
    {[f \in fields |-> 0] : fields \in {{}, {"lat"}, {"lat", "lng"}}}

RadiusInputs == {5, 150}

MaxLocationsInputs == {1, 2}

\* "x in list".
In(x, list) == \E i \in 1..Len(list) : list[i] = x

\* any(interest in location_categories for interest in interests).
MatchesInterests(location, interests) ==
    \E i \in 1..Len(interests) : In(interests[i], Get(location, "categories", <<>>))

\* center_lat is not None and center_lng is not None.
HasCenter(center) == "lat" \in DOMAIN center /\ "lng" \in DOMAIN center

\* The location has both loc_lat and loc_lng.
HasLatLng(location) ==
    /\ "lat" \in DOMAIN Get(location, "coordinates", <<>>)
    /\ "lng" \in DOMAIN Get(location, "coordinates", <<>>)

\* distance_km > max_radius_km is skipped.
WithinRadiusAlways(d, radius) == TRUE

WithinRadius(d, radius) == ~(d > radius)

\* The loop over all_locations from place p on: the matching list, every
\* location with its document id and, when a center is given, distance_km
\* (without a center distance_km is None: the field is left out here).
RECURSIVE Matching(_, _, _, _, _)
Matching(catalog, interests, center, radius, p) ==
    IF p > Len(catalog) THEN <<>>
    ELSE IF ~MatchesInterests(catalog[p], interests)
         THEN Matching(catalog, interests, center, radius, p + 1)
    ELSE IF ~HasCenter(center)
         THEN <<Update(catalog[p], [id |-> p])>>
                  \o Matching(catalog, interests, center, radius, p + 1)
    ELSE IF ~HasLatLng(catalog[p])
         THEN Matching(catalog, interests, center, radius, p + 1)
    ELSE IF ~WithinRadius(HaversineKm(center.lat, center.lng,
                                      catalog[p].coordinates.lat,
                                      catalog[p].coordinates.lng), radius)
         THEN Matching(catalog, interests, center, radius, p + 1)
    ELSE <<Update(catalog[p],
                  [id |-> p,
                   distance_km |-> HaversineKm(center.lat, center.lng,
                                               catalog[p].coordinates.lat,
                                               catalog[p].coordinates.lng)])>>
             \o Matching(catalog, interests, center, radius, p + 1)

\* sum(2 if cat in interests else 1 for cat in categories).
BaseScore(loc, interests) ==
    SumOver([c \in 1..Len(Get(loc, "categories", <<>>)) |->
                IF In(loc.categories[c], interests) THEN 2 ELSE 1], 1)

\* random.uniform(0.8, 1.2), in tenths: the two ends and the middle.
DiversityFactors == {8, 10, 12}

\* relevance_score with diversity factor factor, as a fraction num / den:
\* base_score * factor / 10 * 1 / (1 + distance * 0.2), the last being
\* 5 / (5 + distance), and 1 without a distance or with distance 0.
RelevanceScore(loc, interests, factor) ==
    [num |-> BaseScore(loc, interests) * factor * 5,
     den |-> 10 * (5 + Get(loc, "distance_km", 0))]

Less(k1, k2) == k1.num * k2.den < k2.num * k1.den

\* list.sort(key=..., reverse=True) is stable: an element goes before the
\* first one of a smaller key, after those of an equal key.
RECURSIVE InsertDesc(_, _)
InsertDesc(sorted, x) ==
    IF sorted = <<>> THEN <<x>>
    ELSE IF Less(Head(sorted).key, x.key) THEN <<x>> \o sorted
    ELSE <<Head(sorted)>> \o InsertDesc(Tail(sorted), x)

RECURSIVE SortDesc(_, _)
SortDesc(keyed, n) ==
    IF n = 0 THEN <<>> ELSE InsertDesc(SortDesc(keyed, n - 1), keyed[n])

\* matching[:max_locations], max_locations not negative.
TakeOneMore(list, n) == SubSeq(list, 1, IF n + 1 < Len(list) THEN n + 1 ELSE Len(list))

Take(list, n) == SubSeq(list, 1, IF n < Len(list) THEN n ELSE Len(list))

\* The answer of query_locations_tool when the key function draws the
\* diversity factor factors[i] for the i-th matching location.
QueryLocations(catalog, interests, center, radius, max_locations, factors) ==
    LET matching == Matching(catalog, interests, center, radius, 1)
        keyed == [i \in 1..Len(matching) |->
                     [loc |-> matching[i],
                      key |-> RelevanceScore(matching[i], interests, factors[i])]]
        sorted == SortDesc(keyed, Len(keyed))
    IN Take([i \in 1..Len(sorted) |-> sorted[i].loc], max_locations)

InitSelect ==
    /\ \E catalog \in SeqsUpTo(SelectorLocations, MaxCatalog) :
       \E interests \in InterestInputs : \E center \in CenterInputs :
       \E radius \in RadiusInputs : \E max_locations \in MaxLocationsInputs :
          tool = [catalog |-> catalog, interests |-> interests, center |-> center,
                  radius |-> radius, max_locations |-> max_locations,
                  results |-> <<>>]
    /\ jobs = [j \in 1..1 |-> NoDoc]
    /\ tours = [j \in 1..1 |-> NoDoc]
    /\ args = [j \in 1..1 |-> <<>>]
    /\ pc = [j \in 1..1 |-> [at |-> "none", k |-> 0]]
    /\ inflight = [j \in 1..1 |-> {}]
    /\ invoked = [j \in 1..1 |-> <<>>]
    /\ last = [j \in 1..1 |-> "none"]

\* One call of query_locations_tool.
QueryLocationsTool ==
    /\ Len(tool.results) < MaxQueries
    /\ \E factors \in [1..Len(Matching(tool.catalog, tool.interests, tool.center,
                                        tool.radius, 1)) -> DiversityFactors] :
          tool' = [tool EXCEPT !.results =
                      Append(@, QueryLocations(tool.catalog, tool.interests, tool.center,
                                               tool.radius, tool.max_locations, factors))]
    /\ UNCHANGED <<jobs, tours, args, pc, inflight, invoked, last>>

NextSelect == QueryLocationsTool

SpecSelect == InitSelect /\ [][NextSelect]_vars

\* ------------------------------- two runs of update_tour_with_audio_tool
\* Two calls of the tool on one tour, each for its own location, run in
\* two workers: a call reads the tour and later writes the locations list
\* it has built from what it read. Here tool is [calls, clock], calls[c]
\* being [at, id, url, seen] with at "start", "read" or "done" and seen the
\* tour data the call has read.
Callers == 1..2

StoryStops == {[id |-> id, name |-> NameOf(id), story |-> "text"] : id \in {"a", "b", "c"}}

AudioTours ==
    {[tour_id |-> 1, status |-> "approved", locations |-> locs] :
        locs \in SeqsUpTo(StoryStops, MaxStops)}

\* The fields update_tour_with_audio_tool writes, built from the tour data
\* seen that it has read.
AudioFields(seen, id, url, now) ==
    [locations |-> UpdateTourWithAudioAt(seen, id, url, now).locations,
     audio_synthesis_completed_at |-> now]

InitAudio ==
    /\ \E doc \in AudioTours : tours = [t \in 1..1 |-> doc]
    /\ \E ids \in [Callers -> {"a", "b", "c"}] :
          /\ \A c, d \in Callers : c # d => ids[c] # ids[d]
          /\ tool = [clock |-> 0,
                     calls |-> [c \in Callers |->
                                  [at |-> "start", id |-> ids[c], url |-> "u" \o ids[c],
                                   seen |-> NoDoc]]]
    /\ jobs = [j \in 1..1 |-> NoDoc]
    /\ args = [j \in 1..1 |-> <<>>]
    /\ pc = [j \in 1..1 |-> [at |-> "none", k |-> 0]]
    /\ inflight = [j \in 1..1 |-> {}]
    /\ invoked = [j \in 1..1 |-> <<>>]
    /\ last = [j \in 1..1 |-> "none"]

\* tour_doc = tours_ref.document(tour_id).get() of call c.
AudioRead(c) ==
    /\ tool.calls[c].at = "start"
    /\ tool' = [tool EXCEPT !.calls[c].at = "read", !.calls[c].seen = tours[1]]
    /\ UNCHANGED <<jobs, tours, args, pc, inflight, invoked, last>>

\* tours_ref.document(tour_id).update({...}) of call c.
AudioWrite(c) ==
    /\ tool.calls[c].at = "read"
    /\ tours' = [tours EXCEPT ![1] =
                    Update(@, AudioFields(tool.calls[c].seen, tool.calls[c].id,
                                          tool.calls[c].url, tool.clock + 1))]
    /\ tool' = [tool EXCEPT !.calls[c].at = "done", !.clock = @ + 1]
    /\ UNCHANGED <<jobs, args, pc, inflight, invoked, last>>

NextAudio ==
    \/ \E c \in Callers : AudioRead(c)
    \/ \E c \in Callers : AudioWrite(c)

SpecAudio == InitAudio /\ [][NextAudio]_vars

\* ------------------------------------- the fallback selection of the task
\* The loop of process_tour_async that fills the tour when the curator has
\* left no tour record, run on a catalog and a center. Here tool is
\* [at, catalog, center, locations], at being "call" or "done".
MaxFallbackCatalog == 7

FallbackLimit == 6

FallbackRadiusKm == 10

\* The documents of the catalog lie on the meridian lng: one degree of
\* latitude north of the equator, three degrees north of it, or without
\* coordinates.
FallbackDoc(kind, lng) ==
    CASE kind = "near" -> [id |-> "near", coordinates |-> [lat |-> 1, lng |-> lng]]
      [] kind = "far" -> [id |-> "far", coordinates |-> [lat |-> 3, lng |-> lng]]
      [] kind = "nowhere" -> [id |-> "nowhere"]

\* center_lat and center_lng of the request: both None, or a point of the
\* same meridian on the equator or one degree north of it.
FallbackCenters(lng) == {[f \in {} |-> 0]} \cup {[lat |-> lat, lng |-> lng] : lat \in {0, 1}}

\* The haversine distance in km of two points of one meridian, or of two
\* points of the equator: the difference in degrees times 6371 * pi / 180.
InlineHaversineKm(lat1, lon1, lat2, lon2) ==
    IF lon1 = lon2
    THEN KmPerDegree * (IF lat1 >= lat2 THEN lat1 - lat2 ELSE lat2 - lat1)
    ELSE HaversineKm(lat1, lon1, lat2, lon2)

\* "if center_lat and center_lng": None and 0 are both false.
CenterGiven(center) ==
    /\ "lat" \in DOMAIN center /\ "lng" \in DOMAIN center
    /\ center.lat # 0 /\ center.lng # 0

\* coords is a dict with 'lat' and 'lng'.
ValidCoords(loc) ==
    /\ "coordinates" \in DOMAIN loc
    /\ {"lat", "lng"} \subseteq DOMAIN loc.coordinates

\* The loop over all_locations from place p on, acc being locations_data.
RECURSIVE FallbackSelect(_, _, _, _)
FallbackSelect(catalog, center, p, acc) ==
    IF p > Len(catalog) \/ Len(acc) >= FallbackLimit THEN acc
    ELSE IF ~ValidCoords(catalog[p]) THEN FallbackSelect(catalog, center, p + 1, acc)
    ELSE IF /\ CenterGiven(center)
            /\ InlineHaversineKm(center.lat, center.lng, catalog[p].coordinates.lat,
                                 catalog[p].coordinates.lng) > FallbackRadiusKm
         THEN FallbackSelect(catalog, center, p + 1, acc)
    ELSE FallbackSelect(catalog, center, p + 1,
                        Append(acc, [id |-> Get(catalog[p], "id", "None"),
                                     coordinates |-> catalog[p].coordinates]))

InitFallback ==
    /\ \E lng \in {0, 1} : \E kinds \in SeqsUpTo({"near", "far", "nowhere"}, MaxFallbackCatalog) :
       \E center \in FallbackCenters(lng) :
          tool = [at |-> "call",
                  catalog |-> [p \in 1..Len(kinds) |-> FallbackDoc(kinds[p], lng)],
                  center |-> center, locations |-> <<>>]
    /\ jobs = [j \in 1..1 |-> NoDoc]
    /\ tours = [j \in 1..1 |-> NoDoc]
    /\ args = [j \in 1..1 |-> <<>>]
    /\ pc = [j \in 1..1 |-> [at |-> "none", k |-> 0]]
    /\ inflight = [j \in 1..1 |-> {}]
    /\ invoked = [j \in 1..1 |-> <<>>]
    /\ last = [j \in 1..1 |-> "none"]

\* The fallback fills locations_data.
FallbackTool ==
    /\ tool.at = "call"
    /\ tool' = [tool EXCEPT !.at = "done",
                            !.locations = FallbackSelect(tool.catalog, tool.center, 1, <<>>)]
    /\ UNCHANGED <<jobs, tours, args, pc, inflight, invoked, last>>

NextFallback == FallbackTool

SpecFallback == InitFallback /\ [][NextFallback]_vars

\* ------------------------------------------ the request of create_tour_async
\* The interests and the duration a request body can carry: the list may be
\* empty and the duration may be zero, the handler reads both as they come.
InterestLists == {<<>>, <<"history">>}

Durations == {0, 30}

\* The job record create_tour_async sets, with the request's interests and
\* duration in it.
RequestJob(j, interests, duration, ids) ==
    Update(NewJob(j, ids), [interests |-> interests, duration |-> duration])

\* POST /create-tour-async with a body carrying interests and duration.
SubmitTour(j, interests, duration, ids) ==
    /\ ~Exists(jobs[j])
    /\ \A i \in DOMAIN jobs : i < j => Exists(jobs[i])
    /\ jobs' = [jobs EXCEPT ![j] = RequestJob(j, interests, duration, ids)]
    /\ args' = [args EXCEPT ![j] = ids]
    /\ pc' = [pc EXCEPT ![j] = [at |-> "queued", k |-> 0]]
    /\ UNCHANGED <<tours, inflight, invoked, last, tool>>

NextRequest ==
    \/ \E j \in DOMAIN jobs : \E interests \in InterestLists :
         \E duration \in Durations : \E ids \in LocationIdLists :
            SubmitTour(j, interests, duration, ids)
    \/ \E j \in DOMAIN jobs : Begin(j)
    \/ \E j \in DOMAIN jobs : Fetch(j)
    \/ \E j \in DOMAIN jobs : Post(j)
    \/ \E j \in DOMAIN jobs : AgentWork(j)
    \/ \E j \in DOMAIN jobs : Return(j)
    \/ \E j \in DOMAIN jobs : GetTour(j)
    \/ \E j \in DOMAIN jobs : JobUpdate(j)
    \/ \E j \in DOMAIN jobs : TourUpdate(j)
    \/ \E j \in DOMAIN jobs : Final(j)

SpecRequest == Init /\ [][NextRequest]_vars

\* ------------------------------------------------------------ the claims
Terminal(status) == status \in {"completed", "failed"}

\* The place of a status in the stage order queued, selection, routing,
\* narration, review, synthesis, completed.
Rank(status) ==
    CASE status = "queued" -> 0
      [] status \in {"fetching_locations", "curator_running"} -> 1
      [] status = "optimizer_running" -> 2
      [] status = "storyteller_running" -> 3
      [] status = "moderator_running" -> 4
      [] status = "voice_synthesis_running" -> 5
      [] status = "completed" -> 6
      [] status = "failed" -> 7

Range(seq) == {seq[i] : i \in 1..Len(seq)}

Stopped(j) == pc[j].at \in {"done", "crashed"}

\* C1: every change of a job's status leaves a non-terminal status and goes
\* to failed or to a status later in the stage order.
StatusMovesForward ==
    [][\A j \in Jobs :
          (Exists(jobs[j]) /\ jobs'[j].status # jobs[j].status)
              => /\ ~Terminal(jobs[j].status)
                 /\ \/ jobs'[j].status = "failed"
                    \/ Rank(jobs'[j].status) > Rank(jobs[j].status)]_vars

StatusMovesForwardWitness ==
    \E j \in Jobs : /\ Exists(jobs[j])
                    /\ jobs[j].status = "completed"
                    /\ invoked[j] = <<1, 2, 3, 4, 5>>

\* C2: once a stage has answered Rejected (success=false) or Invalid (an
\* unparsable body), the task has stopped, the job is not completed, and a
\* task that ended with its last write done left the job failed with the
\* detail attached.
RejectedIsTerminal ==
    \A j \in Jobs :
        last[j] \in {"rejected", "invalid"}
            => /\ Stopped(j)
               /\ jobs[j].status # "completed"
               /\ pc[j].at = "done" => (jobs[j].status = "failed" /\ "error" \in DOMAIN jobs[j])

\* C3: a job failed by a stage that raised carries the error detail and, in
\* one of its text fields, the name of that stage; that stage is the last
\* one invoked.
TextFields == {"status", "error", "stage", "failed_stage"}

FailedCarriesStage ==
    \A j \in Jobs :
        (Exists(jobs[j]) /\ jobs[j].status = "failed" /\ Raises(last[j]))
            => /\ "error" \in DOMAIN jobs[j]
               /\ invoked[j][Len(invoked[j])] = pc[j].k
               /\ \E f \in DOMAIN jobs[j] \cap TextFields : jobs[j][f] = Stages[pc[j].k]

\* C4 (as claimed): a job failed by a Timeout or Unavailable stage has had
\* that stage invoked more than once.
Attempts(j, k) == Cardinality({i \in 1..Len(invoked[j]) : invoked[j][i] = k})

FailureWriteFrame ==
    [][\A j \in Jobs :
          (Exists(jobs[j]) /\ jobs[j].status # "failed" /\ jobs'[j].status = "failed")
              => /\ tours' = tours
                 /\ DOMAIN jobs'[j] = DOMAIN jobs[j] \cup {"status", "error", "updated_at"}
                 /\ \A f \in DOMAIN jobs[j] \ {"status", "error", "updated_at"} :
                        jobs'[j][f] = jobs[j][f]]_vars

FailureWriteFrameWitness ==
    \E j \in Jobs : /\ Exists(jobs[j])
                    /\ jobs[j].status = "failed"
                    /\ pc[j].k = 3
                    /\ Raises(last[j])
                    /\ jobs[j].tour_id = TourOf(j)
                    /\ jobs[j].progress = 75
                    /\ tours[TourOf(j)].locations # <<>>

\* C6: progress is always in 0..100 and no step lowers it.
ProgressMonotone ==
    /\ [](\A j \in Jobs : Exists(jobs[j]) => jobs[j].progress \in 0..100)
    /\ [][\A j \in Jobs :
             Exists(jobs[j]) => jobs'[j].progress >= jobs[j].progress]_vars

ProgressMonotoneWitness ==
    \E j \in Jobs : /\ Exists(jobs[j])
                    /\ jobs[j].status = "failed"
                    /\ jobs[j].progress = 90

\* C7 (as claimed): progress is 0, 10, 30, 55, 80, 90, 100 by status.
SpecProgress(status) ==
    CASE status = "queued" -> 0
      [] status \in {"fetching_locations", "curator_running"} -> 10
      [] status = "optimizer_running" -> 30
      [] status = "storyteller_running" -> 55
      [] status = "moderator_running" -> 80
      [] status = "voice_synthesis_running" -> 90
      [] status = "completed" -> 100

ProgressBySpecTable ==
    \A j \in Jobs :
        (Exists(jobs[j]) /\ jobs[j].status # "failed")
            => jobs[j].progress = SpecProgress(jobs[j].status)

\* C7 (amended): progress is 0, 25, 50, 75, 90, 95, 100 by status, and the
\* write that sets failed keeps the progress.
CodeProgress(status) ==
    CASE status = "queued" -> 0
      [] status \in {"fetching_locations", "curator_running"} -> 25
      [] status = "optimizer_running" -> 50
      [] status = "storyteller_running" -> 75
      [] status = "moderator_running" -> 90
      [] status = "voice_synthesis_running" -> 95
      [] status = "completed" -> 100

ProgressByStatus ==
    /\ [](\A j \in Jobs :
             (Exists(jobs[j]) /\ jobs[j].status # "failed")
                 => jobs[j].progress = CodeProgress(jobs[j].status))
    /\ [][\A j \in Jobs :
             (Exists(jobs[j]) /\ jobs'[j].status = "failed")
                 => jobs'[j].progress = jobs[j].progress]_vars

ProgressByStatusWitness ==
    \E j \in Jobs : /\ Exists(jobs[j])
                    /\ jobs[j].status = "voice_synthesis_running"
                    /\ jobs[j].progress = 95

\* C8: once a job is marked for cancellation no further stage is invoked for
\* it.
Marked(j) == Exists(jobs[j]) /\ "cancel_requested" \in DOMAIN jobs[j]

CancelStopsPipeline ==
    [][\A j \in Jobs :
          Marked(j) => invoked'[j] = invoked[j]]_vars

\* C9: at most one stage call of a job is in flight, it is the last one
\* invoked, and the stages are invoked in increasing order.
OneStageInFlight ==
    \A j \in Jobs :
        /\ Cardinality(inflight[j]) <= 1
        /\ inflight[j] # {} => inflight[j] = {invoked[j][Len(invoked[j])]}
        /\ \A i \in 1..(Len(invoked[j]) - 1) : invoked[j][i] < invoked[j][i + 1]

OneStageInFlightWitness ==
    \E j \in Jobs : inflight[j] = {5} /\ invoked[j] = <<1, 2, 3, 4, 5>>

\* C10 (as claimed): a job with explicit location ids leaves queued only for
\* the routing status (or failed).
HasExplicit(j) == Exists(jobs[j]) /\ Len(args[j]) > 0

ExplicitStraightToRouting ==
    [][\A j \in Jobs :
          (HasExplicit(j) /\ jobs[j].status = "queued" /\ jobs'[j].status # "queued")
              => jobs'[j].status \in {"optimizer_running", "failed"}]_vars

\* C10 (amended): for a job with explicit location ids the curator is never
\* invoked and the status is never curator_running; the job leaves queued
\* for fetching_locations and fetching_locations for optimizer_running
\* (or, either time, for failed).
ExplicitSkipsCurator ==
    /\ [](\A j \in Jobs :
             HasExplicit(j) => (1 \notin Range(invoked[j])
                                /\ jobs[j].status # "curator_running"))
    /\ [][\A j \in Jobs :
             (HasExplicit(j) /\ jobs'[j].status # jobs[j].status)
                 => /\ jobs[j].status = "queued"
                        => jobs'[j].status \in {"fetching_locations", "failed"}
                    /\ jobs[j].status = "fetching_locations"
                        => jobs'[j].status \in {"optimizer_running", "failed"}]_vars

ExplicitSkipsCuratorWitness ==
    \E j \in Jobs : /\ HasExplicit(j)
                    /\ jobs[j].status = "optimizer_running"
                    /\ invoked[j] = <<2>>
                    /\ tours[TourOf(j)].locations = <<Stop("b")>>

\* C11 as stated: once a stage has returned, the task writes nothing for the
\* job before the write of the advanced job status; so the tour record stays
\* as it is between the return and that write.
StatusPersistedFirst ==
    [][\A j \in Jobs :
          (pc[j].at \in {"get_tour", "tour_update"} /\ inflight[j] = {})
              => tours'[TourOf(j)] = tours[TourOf(j)]]_vars

\* C11: while a stage of a job is in flight the job record shows that stage
\* as running, and it showed so already when the call was sent.
PersistedBeforeInvoke ==
    /\ [](\A j \in Jobs : \A k \in inflight[j] :
             Exists(jobs[j]) /\ Rank(jobs[j].status) = k)
    /\ [][\A j \in Jobs :
             invoked'[j] # invoked[j]
                 => Rank(jobs[j].status) = invoked'[j][Len(invoked'[j])]]_vars

PersistedBeforeInvokeWitness ==
    \E j \in Jobs : /\ inflight[j] = {4}
                    /\ jobs[j].status = "moderator_running"
                    /\ tours[TourOf(j)].stories_generated

\* C12: a job record carries an error exactly when its status is failed.
ErrorIffFailed ==
    \A j \in Jobs :
        Exists(jobs[j]) => (("error" \in DOMAIN jobs[j]) <=> jobs[j].status = "failed")

ErrorIffFailedWitness ==
    \E j \in Jobs : /\ Exists(jobs[j])
                    /\ jobs[j].status = "failed"
                    /\ jobs[j].error = "store_unavailable"
                    /\ jobs[j].progress = 0

\* C14: a failed write of the job store is tried again, so a task that has
\* ended has left its job in a terminal status.
StoreWriteRetried ==
    \A j \in Jobs : Stopped(j) => Exists(jobs[j]) /\ Terminal(jobs[j].status)

\* C15: a job record, once created, is never deleted; the status query
\* answers a failed job with its reason and the progress it had before it
\* failed, and answers not-found for a job that was never created.
JobRecordKept ==
    /\ [][\A j \in Jobs :
             (Exists(jobs[j]) /\ jobs'[j] # jobs[j])
                 => /\ Exists(jobs'[j])
                    /\ GetTourStatus(jobs'[j], "ok").code = 200
                    /\ jobs'[j].status = "failed"
                         => /\ GetTourStatus(jobs'[j], "ok").error # "None"
                            /\ GetTourStatus(jobs'[j], "ok").progress
                                 = GetTourStatus(jobs[j], "ok").progress]_vars
    /\ [](\A j \in Jobs :
             pc[j].at = "none" => GetTourStatus(jobs[j], "ok").code = 404)

JobRecordKeptWitness ==
    \E j \in Jobs : /\ Stopped(j)
                    /\ GetTourStatus(jobs[j], "ok").code = 200
                    /\ GetTourStatus(jobs[j], "ok").status = "failed"
                    /\ GetTourStatus(jobs[j], "ok").error = "timeout"
                    /\ GetTourStatus(jobs[j], "ok").progress = 75

\* C13: a request with no interest or with a duration that is not positive
\* creates no job record.
MalformedRejected ==
    \A j \in Jobs :
        Exists(jobs[j]) => Len(jobs[j].interests) > 0 /\ jobs[j].duration > 0

\* C16: a tour record is written only on behalf of its own job: it changes
\* only in a step of its job's task or while a stage of its job is in flight.
WritesStayInOwnRecords ==
    [][\A t \in DOMAIN tours :
          tours'[t] # tours[t] => (pc'[t] # pc[t] \/ inflight[t] # {})]_vars

\* The stop list of a tour record, empty when the record has none.
StopsOf(doc) == IF Exists(doc) THEN Get(doc, "locations", <<>>) ELSE <<>>

\* The fields of a stop that the tool of a call writes.
WrittenBy(call) ==
    IF call.op = "stories" THEN {"story"} ELSE {"audio_url", "audio_generated_at"}

\* A run of a tool leaves the stops as they are, in number, identity and
\* order, and keeps every field it does not write itself.
KeepsStops(old, new, call) ==
    /\ Len(new) = Len(old)
    /\ \A i \in 1..Len(old) :
          /\ new[i].id = old[i].id
          /\ DOMAIN old[i] \subseteq DOMAIN new[i]
          /\ \A f \in DOMAIN old[i] \ WrittenBy(call) : new[i][f] = old[i][f]

\* Two stop lists with the same stops and the same fields, of the same value
\* except for the fields named in but.
SameStops(old, new, but) ==
    /\ Len(new) = Len(old)
    /\ \A i \in 1..Len(old) :
          /\ DOMAIN new[i] = DOMAIN old[i]
          /\ \A f \in DOMAIN old[i] \ but : new[i][f] = old[i][f]

\* C17 as stated: a run of a merging tool keeps the stops and the fields of
\* earlier stages, and a second run with the arguments of the run before it
\* leaves the stop list exactly as that run left it.
MergeIdempotent ==
    [][/\ KeepsStops(StopsOf(tours[1]), StopsOf(tours'[1]), tool'.last)
       /\ tool'.last = tool.last
            => SameStops(StopsOf(tours[1]), StopsOf(tours'[1]), {})]_vars

\* C17: a run of a merging tool keeps the stops and the fields of earlier
\* stages, and a second run with the arguments of the run before it leaves
\* the same stops with the same fields, of the same value except for the
\* time stamp audio_generated_at.
MergeKeepsStops ==
    [][/\ KeepsStops(StopsOf(tours[1]), StopsOf(tours'[1]), tool'.last)
       /\ tool'.last = tool.last
            => SameStops(StopsOf(tours[1]), StopsOf(tours'[1]),
                         {"audio_generated_at"})]_vars

MergeKeepsStopsWitness ==
    /\ tool.clock = 3
    /\ tool.last.op = "audio"
    /\ Len(StopsOf(tours[1])) = 2
    /\ \E i \in 1..2 : /\ "route_info" \in DOMAIN tours[1].locations[i]
                       /\ "story" \in DOMAIN tours[1].locations[i]
    /\ \E i \in 1..2 : /\ "audio_generated_at" \in DOMAIN tours[1].locations[i]
                       /\ tours[1].locations[i].audio_generated_at = 3
                       /\ tours[1].locations[i].story # "old"

\* The number of times x occurs in seq.
Count(seq, x) == Cardinality({i \in 1..Len(seq) : seq[i] = x})

\* The identifiers of the stops at the places of seq, in order.
IdsOf(objs, seq) == [i \in 1..Len(seq) |-> objs[seq[i]].id]

\* C18: the route returned for stops that all have coordinates holds every
\* stop of the input once: same length, every stop once, every identifier as
\* often as in the input; and for such stops a route is returned.
RouteIsPermutation ==
    /\ tool.at = "done"
         => /\ Len(tool.route) = Len(tool.objs)
            /\ \A i \in 1..Len(tool.objs) : Count(tool.route, i) = 1
            /\ \A i \in 1..Len(tool.objs) :
                  Count(IdsOf(tool.objs, tool.route), tool.objs[i].id)
                      = Count(IdsOf(tool.objs, [k \in 1..Len(tool.objs) |-> k]),
                              tool.objs[i].id)
    /\ tool.at = "error" => \E i \in 1..Len(tool.objs) : ~HasCoordinates(tool.objs[i])

RouteIsPermutationWitness ==
    /\ tool.at = "done"
    /\ Len(tool.objs) = 3
    /\ tool.objs[1].id = tool.objs[2].id
    /\ tool.objs[1].coordinates = tool.objs[2].coordinates
    /\ tool.route # <<1, 2, 3>>

\* The stop emitted by a step, and the stops that remained before it.
Emitted == tool'.route[Len(tool'.route)]

Emits == tool.at = "loop" /\ Len(tool'.route) = Len(tool.route) + 1

\* C19: the stop emitted by a step is at most as far from the current
\* position as every stop that remained; the current position is the start
\* point first and the coordinates of the stop emitted last afterwards.
GreedyStep ==
    /\ [][Emits =>
            \A p \in 1..Len(tool.remaining) :
                Distance(tool.current_pos, tool.objs[Emitted].coordinates)
                    <= Distance(tool.current_pos, tool.objs[tool.remaining[p]].coordinates)]_vars
    /\ [](tool.at = "loop" =>
            tool.current_pos = IF tool.route = <<>> THEN tool.start
                               ELSE tool.objs[tool.route[Len(tool.route)]].coordinates)

GreedyStepWitness ==
    /\ tool.at = "done"
    /\ Len(tool.route) = 3
    /\ tool.route[1] = 3
    /\ tool.objs[1].coordinates # tool.objs[2].coordinates
    /\ tool.objs[2].coordinates # tool.objs[3].coordinates
    /\ tool.objs[1].coordinates # tool.objs[3].coordinates

\* C20: of the remaining stops at the smallest distance the step emits the
\* one that comes first in the input list.
TieByInputOrder ==
    [][Emits =>
          \A p \in 1..Len(tool.remaining) :
              Distance(tool.current_pos, tool.objs[tool.remaining[p]].coordinates)
                  = Distance(tool.current_pos, tool.objs[Emitted].coordinates)
                => Emitted <= tool.remaining[p]]_vars

TieByInputOrderWitness ==
    /\ tool.at = "done"
    /\ tool.start = Point(0)
    /\ Len(tool.objs) = 3
    /\ tool.objs[1].coordinates = Point(1)
    /\ tool.objs[2].coordinates = Point(-1)
    /\ tool.objs[3].coordinates = Point(1)
    /\ tool.route = <<1, 3, 2>>

\* C21: the construction ends; every turn of the loop takes one stop from
\* the remaining ones and emits it, so that a route is returned after one
\* turn per stop; for an empty list the answer is an empty route with zero
\* totals, not an error.
RouteTerminates ==
    /\ <>(tool.at # "loop")
    /\ [][Emits => /\ Len(tool'.remaining) = Len(tool.remaining) - 1
                   /\ Len(tool.route) + Len(tool.remaining) = Len(tool.objs)]_vars
    /\ [](tool.at = "done" => Len(tool.route) = Len(tool.objs))
    /\ [](tool.objs = <<>> =>
             /\ tool.at # "error"
             /\ RouteResult(tool.objs, tool.route).optimized_locations = <<>>
             /\ RouteResult(tool.objs, tool.route).duration_info
                  = [walking |-> 0, story_minutes |-> 0])

RouteTerminatesWitness ==
    /\ tool.at = "done"
    /\ tool.objs = <<>>
    /\ tool.route = <<>>
    /\ tool.start = Point(1)

\* C22: the first stop of the route has from_previous "start", every later
\* one the identifier of the stop emitted before it.
FromPreviousIsId ==
    tool.at = "done" =>
        \A p \in 1..Len(tool.route) :
            tool.objs[tool.route[p]].route_info.from_previous
                = IF p = 1 THEN "start" ELSE tool.objs[tool.route[p - 1]].id

\* The answers of the selector so far.
Answers == {tool.results[i] : i \in 1..Len(tool.results)}

\* The locations of the catalog that carry one of the interests.
Interesting ==
    {p \in 1..Len(tool.catalog) :
        Range(Get(tool.catalog[p], "categories", <<>>)) \cap Range(tool.interests) # {}}

\* C23: the selector returns at most max_locations locations, each with a
\* category that is one of the interests.
SelectorBounded ==
    \A r \in Answers :
        /\ Len(r) <= tool.max_locations
        /\ \A i \in 1..Len(r) : Range(r[i].categories) \cap Range(tool.interests) # {}

SelectorBoundedWitness ==
    /\ Cardinality(Interesting) = 3
    /\ tool.max_locations = 2
    /\ \E r \in Answers : Len(r) = 2 /\ r[1].id = 3

\* C24: with a center every returned location has a latitude and a
\* longitude and lies within the radius; without one no location is left
\* out for its distance or for missing coordinates.
SelectorWithinRadius ==
    \A r \in Answers :
        IF "lat" \in DOMAIN tool.center /\ "lng" \in DOMAIN tool.center
        THEN \A i \in 1..Len(r) :
                /\ "coordinates" \in DOMAIN r[i]
                /\ {"lat", "lng"} \subseteq DOMAIN r[i].coordinates
                /\ HaversineKm(tool.center.lat, tool.center.lng,
                               r[i].coordinates.lat, r[i].coordinates.lng) <= tool.radius
        ELSE /\ \A i \in 1..Len(r) : r[i].id \in Interesting
             /\ Len(r) = IF Cardinality(Interesting) < tool.max_locations
                         THEN Cardinality(Interesting) ELSE tool.max_locations

SelectorWithinRadiusWitness ==
    /\ "lat" \in DOMAIN tool.center /\ "lng" \in DOMAIN tool.center
    /\ tool.radius = 5
    /\ Cardinality(Interesting) = 3
    /\ \E p \in Interesting : ~HasLatLng(tool.catalog[p])
    /\ \E p \in Interesting : HasLatLng(tool.catalog[p]) /\ tool.catalog[p].coordinates.lng = 1
    /\ \E r \in Answers : Len(r) = 1

\* C25: two calls with the same catalog and arguments return the same
\* locations in the same order.
SelectorDeterministic ==
    \A i, k \in 1..Len(tool.results) :
        /\ Len(tool.results[i]) = Len(tool.results[k])
        /\ \A n \in 1..Len(tool.results[i]) :
              tool.results[i][n].id = tool.results[k][n].id

\* C26: when no write of the failed status is lost, every job that has been
\* created reaches the status completed or failed.
EventuallyTerminal ==
    [](\A j \in Jobs : pc[j].at # "crashed")
        => \A j \in Jobs :
               (Exists(jobs[j]) ~> (Exists(jobs[j]) /\ Terminal(jobs[j].status)))

EventuallyTerminalWitness ==
    \E j \in Jobs : /\ pc[j].at = "done"
                    /\ jobs[j].status = "failed"
                    /\ jobs[j].error = "invalid"
                    /\ invoked[j] = <<2, 3, 4, 5>>

\* C27: a completed job had routing, narration, review and synthesis
\* invoked once each, in this order and one after the return of the other,
\* after one invocation of the selection unless location ids were given; it
\* has progress 100 and the tour_id of an existing tour record.
CompletedRanAllStages ==
    /\ [](\A j \in Jobs :
             (Exists(jobs[j]) /\ jobs[j].status = "completed")
                 => /\ invoked[j] = IF Len(args[j]) > 0 THEN <<2, 3, 4, 5>>
                                    ELSE <<1, 2, 3, 4, 5>>
                    /\ inflight[j] = {}
                    /\ jobs[j].progress = 100
                    /\ jobs[j].tour_id = TourOf(j)
                    /\ Exists(tours[jobs[j].tour_id]))
    /\ [][\A j \in Jobs : invoked'[j] # invoked[j] => inflight[j] = {}]_vars

CompletedRanAllStagesWitness ==
    \E j \in Jobs : /\ Exists(jobs[j])
                    /\ jobs[j].status = "completed"
                    /\ Len(args[j]) = 0
                    /\ last[j] = "rejected"
                    /\ tours[TourOf(j)].status = "completed"

\* C28: a tour that the review has left with status requires_review keeps
\* this status: the pipeline gives it neither approved nor completed, and the
\* voice agent finds no work in it.
RequiresReviewStays ==
    /\ [][\A j \in Jobs :
             (Exists(tours[TourOf(j)]) /\ tours[TourOf(j)].status = "requires_review"
                  /\ inflight[j] = {})
                 => tours'[TourOf(j)].status = "requires_review"]_vars
    /\ [](\A j \in Jobs :
             (Exists(tours[TourOf(j)]) /\ tours[TourOf(j)].status = "requires_review")
                 => PendingSynthesis(tours[TourOf(j)]) = {})

\* C29: when both calls have finished, every location a call was made for
\* carries the audio_url of that call.
NoLostAudio ==
    (\A c \in Callers : tool.calls[c].at = "done")
        => \A c \in Callers : \A i \in 1..Len(tours[1].locations) :
              tours[1].locations[i].id = tool.calls[c].id
                  => /\ "audio_url" \in DOMAIN tours[1].locations[i]
                     /\ tours[1].locations[i].audio_url = tool.calls[c].url

\* C30: with both center coordinates in the request, a zero among them
\* included, the fallback puts into the tour only locations with valid
\* coordinates within 10 km of the center, and at most 6 of them.
FallbackWithinRadius ==
    (tool.at = "done" /\ "lat" \in DOMAIN tool.center /\ "lng" \in DOMAIN tool.center)
        => /\ Len(tool.locations) <= 6
           /\ \A i \in 1..Len(tool.locations) :
                 /\ {"lat", "lng"} \subseteq DOMAIN tool.locations[i].coordinates
                 /\ InlineHaversineKm(tool.center.lat, tool.center.lng,
                                      tool.locations[i].coordinates.lat,
                                      tool.locations[i].coordinates.lng) <= 10

\* The second part of C30: a stage after the selection is invoked only
\* when the tour record of the job exists.
TourExistsBeforeRouting ==
    \A j \in Jobs : (invoked[j] # <<>> /\ invoked[j][Len(invoked[j])] > 1)
                        => Exists(tours[TourOf(j)])

====
